---- MODULE Spec2Model ----
(***************************************************************************)
(* Reliable file transfer over UDP: the sliding-window sender of           *)
(* part1/p1_server.py and the reassembling receiver of part1/p1_client.py, *)
(* joined by a channel that loses, duplicates and reorders datagrams.      *)
(*                                                                         *)
(* Byte strings are sequences of numbers 0..255.  Datagrams are the byte   *)
(* strings the code packs; the channel is the set of datagrams sent so     *)
(* far, any of which may be delivered any number of times, or never.       *)
(***************************************************************************)
EXTENDS Integers, Sequences, FiniteSets, TLC

(***************************************************************************)
(* Bounds of the model.                                                    *)
(***************************************************************************)
\* Payload bytes per data segment.  The source value is 1180; the model
\* scales it down but keeps it larger than the three bytes of "EOF", so
\* that, as in the source, only a last, short chunk can equal b'EOF'.
MSS == 4
\* Largest file size (bytes) drawn by the segmentation specification.
MaxFileSize == 30
\* Duplicate ACKs counted per cumulative ACK value before the model stops
\* delivering further duplicates (the code's counter is unbounded); the
\* timed system delivers twice as many.
MaxDupAcks == 3
\* The receiver's hard cap on consecutive read timeouts.  The source value
\* is 100; the model scales it down but keeps it above NoProgressTimeouts,
\* so that, as in the source, the no-progress fallback comes first.
max_consecutive_timeouts == 12
\* The sender's clock (milliseconds) advances in steps of TickMs up to
\* MaxTime: one step is longer than the hole-fill delay and shorter than
\* INITIAL_RTO, two steps are longer than INITIAL_RTO.
TickMs == 600
MaxTime == 1800
\* Largest RTT sample (milliseconds) fed to the estimator on its own.
MaxSample == 4000

(***************************************************************************)
(* Program constants.                                                      *)
(***************************************************************************)
HEADER_SIZE == 20
max_retries == 5
\* "packets_since_last_check >= 10"
CheckEvery == 10
\* time_since_progress > 3.0 with a 0.3 s socket timeout: a read that timed
\* out lasted more than 0.3 s, so ten of them since last_progress_time was
\* set make more than 3.0 s, and nine (2.7 s plus processing) do not.
NoProgressTimeouts == 10
\* Times are integer milliseconds.  INITIAL_RTO = 1.0
INITIAL_RTO == 1000
\* ALPHA = 0.125 and BETA = 0.25, as the denominators of 1/8 and 1/4
AlphaDen == 8
BetaDen == 4
K == 4
\* max(0.3, min(self.rto, 3.0))
MinRto == 300
MaxRto == 3000
\* max(0.1, self.rto / 4): the floor of the hole-fill delay
HoleFillFloor == 100
\* "if self.duplicate_ack_count[cum_ack] == 3"
FastRetransmitAt == 3

None == 0 - 1

\* b'EOF'
EOF == <<69, 79, 70>>

(***************************************************************************)
(* Byte-level helpers (struct.pack / struct.unpack, big endian).           *)
(***************************************************************************)
Min(a, b) == IF a < b THEN a ELSE b
Max(a, b) == IF a > b THEN a ELSE b
Abs(a) == IF a < 0 THEN 0 - a ELSE a

Zeros(n) == [i \in 1..n |-> 0]

\* struct.pack('!I', n)
PackU32(n) == << (n \div 16777216) % 256, (n \div 65536) % 256, (n \div 256) % 256, n % 256 >>

\* struct.unpack('!I', b)[0]
UnpackU32(b) == ((b[1] * 256 + b[2]) * 256 + b[3]) * 256 + b[4]

\* struct.pack('!H', n)
PackU16(n) == << (n \div 256) % 256, n % 256 >>

\* struct.unpack('!H', b)[0]
UnpackU16(b) == b[1] * 256 + b[2]

\* b[i:j] of Python (0-based, end exclusive, clipped to the length)
Slice(b, i, j) == SubSeq(b, i + 1, Min(j, Len(b)))

\* sorted(S) for a finite set of integers
RECURSIVE Sorted(_)
Sorted(S) == IF S = {} THEN << >>
             ELSE LET m == CHOOSE x \in S : \A y \in S : x <= y
                  IN  << m >> \o Sorted(S \ {m})

\* A dict is a function on its key set.
Keys(d) == DOMAIN d
EmptyDict == << >>
DictSet(d, k, v) == [x \in Keys(d) \cup {k} |-> IF x = k THEN v ELSE d[x]]
DictPop(d, ks) == [x \in Keys(d) \ ks |-> d[x]]
DictGet(d, k, default) == IF k \in Keys(d) THEN d[k] ELSE default

(***************************************************************************)
(* Sender: codec and segmentation.                                         *)
(***************************************************************************)
\* ReliableUDPServer.create_packet
create_packet(seq_num, data) == PackU32(seq_num) \o Zeros(16) \o data

\* Mutant of ChunkLoop: the loop runs while i <= len(file_data), so a file
\* whose size is a multiple of MSS gets a trailing empty chunk.
RECURSIVE ChunkLoop_OffByOne(_, _)
ChunkLoop_OffByOne(file, i) ==
    IF i > Len(file) THEN << >>
    ELSE << Slice(file, i, i + MSS) >> \o ChunkLoop_OffByOne(file, i + MSS)

\* The chunk loop of send_file: for i in range(0, len(file_data), MSS)
RECURSIVE ChunkLoop(_, _)
ChunkLoop(file, i) ==
    IF i >= Len(file) THEN << >>
    ELSE << Slice(file, i, i + MSS) >> \o ChunkLoop(file, i + MSS)

\* chunks after "chunks.append(b'EOF')"
Chunks(file) == ChunkLoop(file, 0) \o << EOF >>

\* ReliableUDPServer.parse_ack: <<cum_ack, sack_blocks>>
RECURSIVE ParseBlocks(_, _)
ParseBlocks(reserved, i) ==
    IF i >= 16 THEN << >>
    ELSE LET start_offset == UnpackU16(Slice(reserved, i, i + 2))
             length == UnpackU16(Slice(reserved, i + 2, i + 4))
             rest == ParseBlocks(reserved, i + 4)
         IN  IF i + 4 <= Len(reserved) /\ (start_offset > 0 \/ length > 0)
             THEN << << start_offset, length >> >> \o rest
             ELSE rest

parse_ack(packet) ==
    IF Len(packet) < 4 THEN << None, << >> >>
    ELSE << UnpackU32(Slice(packet, 0, 4)),
            IF Len(packet) >= 20 THEN ParseBlocks(Slice(packet, 4, 20), 0) ELSE << >> >>

(***************************************************************************)
(* Receiver: codec and selective-ack computation.                          *)
(***************************************************************************)
\* ReliableUDPClient.create_ack
RECURSIVE PackBlocks(_)
PackBlocks(blocks) ==
    IF blocks = << >> THEN << >>
    ELSE PackU16(Head(blocks)[1]) \o PackU16(Head(blocks)[2]) \o PackBlocks(Tail(blocks))

create_ack(cum_ack, sack_blocks) ==
    LET sack_data == PackBlocks(Slice(sack_blocks, 0, 4))
    IN  PackU32(cum_ack) \o sack_data \o Zeros(16 - Len(sack_data))

\* ReliableUDPClient.parse_packet: <<seq_num, data>>
parse_packet(packet) ==
    IF Len(packet) < HEADER_SIZE THEN << None, << >> >>
    ELSE << UnpackU32(Slice(packet, 0, 4)), Slice(packet, HEADER_SIZE, Len(packet)) >>

\* Mutant of SackLoop: the length counts one sequence number past the end
\* of the block.
RECURSIVE SackLoop_LongBlock(_, _, _, _)
SackLoop_LongBlock(seqs, block_start, block_end, expected) ==
    LET start_offset == block_start - expected
        length == block_end - block_start + 2
        block == IF start_offset >= 0 /\ length > 0
                 THEN << << start_offset, length >> >> ELSE << >>
    IN  IF seqs = << >> THEN block
        ELSE IF Head(seqs) = block_end + 1
             THEN SackLoop_LongBlock(Tail(seqs), block_start, Head(seqs), expected)
             ELSE block \o SackLoop_LongBlock(Tail(seqs), Head(seqs), Head(seqs), expected)

\* The block-building loop of compute_sack_blocks over sorted_seqs[1:]
RECURSIVE SackLoop(_, _, _, _)
SackLoop(seqs, block_start, block_end, expected) ==
    LET start_offset == block_start - expected
        length == block_end - block_start + 1
        block == IF start_offset >= 0 /\ length > 0
                 THEN << << start_offset, length >> >> ELSE << >>
    IN  IF seqs = << >> THEN block
        ELSE IF Head(seqs) = block_end + 1
             THEN SackLoop(Tail(seqs), block_start, Head(seqs), expected)
             ELSE block \o SackLoop(Tail(seqs), Head(seqs), Head(seqs), expected)

\* ReliableUDPClient.compute_sack_blocks
compute_sack_blocks(rd, expected, eofs) ==
    LET sorted_seqs == Sorted({s \in Keys(rd) : s >= expected /\ (eofs = None \/ s < eofs)})
    IN  IF Keys(rd) = {} THEN << >>
        ELSE IF sorted_seqs = << >> \/ sorted_seqs[1] = expected THEN << >>
        ELSE SackLoop(Tail(sorted_seqs), sorted_seqs[1], sorted_seqs[1], expected)

(***************************************************************************)
(* Inputs: the file on the sender's disk and its window budget.            *)
(***************************************************************************)
\* A file of n bytes, all different and none of them a byte of b'EOF'.
PlainFile(n) == [i \in 1..n |-> i]

\* A file of n >= 3 bytes that ends with the bytes 'E', 'O', 'F'.
EofTailFile(n) == [i \in 1..n |-> IF i > n - 3 THEN EOF[i - (n - 3)] ELSE i]

\* Files transferred by the protocol specification: empty, shorter than a
\* segment, one full segment, several segments with a short last one, and
\* files whose last chunk is exactly b'EOF'.
Files == { PlainFile(0), PlainFile(MSS), PlainFile(2 * MSS + 1),
           EofTailFile(3), EofTailFile(MSS + 3) }

\* sws (bytes): below MSS, a multiple of MSS, not a multiple of MSS.
SwsValues == { 1, MSS + 1, 3 * MSS }

(***************************************************************************)
(* State.                                                                  *)
(***************************************************************************)
VARIABLES
    file_data,              \* bytes of data.txt on the sender's disk
    sws,                    \* ReliableUDPServer.sws
    s_pc,                   \* sender: "idle", "running", "done"
    chunks,                 \* send_file: chunks (data chunks, then b'EOF')
    total_packets,          \* send_file: total_packets
    base_seq,               \* ReliableUDPServer.base_seq
    next_seq,               \* ReliableUDPServer.next_seq
    window,                 \* ReliableUDPServer.window: seq -> packet
    send_time,              \* ReliableUDPServer.window: seq -> send_time
    now,                    \* the sender's clock, time.time() in milliseconds
    estimated_rtt,          \* ReliableUDPServer.estimated_rtt (None before a sample)
    dev_rtt,                \* ReliableUDPServer.dev_rtt (None before a sample)
    rto,                    \* ReliableUDPServer.rto
    transmissions,          \* history: seq -> times the window entry was sent
    sample_tx,              \* history: transmissions of the segment behind the
                            \* latest RTT sample (0 before the first sample)
    duplicate_ack_count,    \* ReliableUDPServer.duplicate_ack_count
    sacked_packets,         \* ReliableUDPServer.sacked_packets
    net_req,                \* the request datagram has been sent
    net_data,               \* data datagrams sent so far (sender -> receiver)
    net_ack,                \* ACK datagrams sent so far (receiver -> sender)
    c_pc,                   \* receiver: "init", "wait_first", "loop", "done"
    attempt,                \* send_request: attempt
    received_data,          \* ReliableUDPClient.received_data: seq -> data
    next_expected,          \* ReliableUDPClient.next_expected
    eof_received,           \* ReliableUDPClient.eof_received
    eof_seq,                \* ReliableUDPClient.eof_seq (None before EOF)
    consecutive_timeouts,   \* receive_file: consecutive_timeouts
    packets_since_last_check, \* receive_file: packets_since_last_check
    progress_age,           \* read timeouts since last_progress_time was set
    last_received_count,    \* receive_file: last_received_count
    output,                 \* bytes written to the output file
    pass_acks,              \* the ACK datagrams sent by the latest pass of the
                            \* receive loop (read or read timeout), in order
    seen,                   \* history: sequence numbers of the segments parsed so far
    was_complete,           \* history: EOF was recorded with every seq below it held
    c_result                \* receive_file's return value: "none" until it returns

server_vars == << file_data, sws, s_pc, chunks, total_packets, base_seq, next_seq,
                  window, send_time, now, estimated_rtt, dev_rtt, rto, transmissions,
                  sample_tx, duplicate_ack_count, sacked_packets >>
client_vars == << c_pc, attempt, received_data, next_expected, eof_received, eof_seq,
                  consecutive_timeouts, packets_since_last_check, progress_age,
                  last_received_count, output, c_result, seen, was_complete, pass_acks >>
net_vars == << net_req, net_data, net_ack >>
vars == << server_vars, client_vars, net_vars >>

Init ==
    /\ file_data \in Files
    /\ sws \in SwsValues
    /\ s_pc = "idle"
    /\ chunks = << >>
    /\ total_packets = 0
    /\ base_seq = 0
    /\ next_seq = 0
    /\ window = EmptyDict
    /\ send_time = EmptyDict
    /\ now = 0
    /\ estimated_rtt = None
    /\ dev_rtt = None
    /\ rto = INITIAL_RTO
    /\ transmissions = EmptyDict
    /\ sample_tx = 0
    /\ duplicate_ack_count = EmptyDict
    /\ sacked_packets = {}
    /\ net_req = FALSE
    /\ net_data = {}
    /\ net_ack = {}
    /\ c_pc = "init"
    /\ attempt = 0
    /\ received_data = EmptyDict
    /\ next_expected = 0
    /\ eof_received = FALSE
    /\ eof_seq = None
    /\ consecutive_timeouts = 0
    /\ packets_since_last_check = 0
    /\ progress_age = 0
    /\ last_received_count = 0
    /\ output = << >>
    /\ pass_acks = << >>
    /\ c_result = "none"
    /\ seen = {}
    /\ was_complete = FALSE

(***************************************************************************)
(* Sender.                                                                 *)
(***************************************************************************)
\* run / send_file up to the main loop: the request has arrived, the file
\* is read and split.
ServerStart ==
    /\ s_pc = "idle"
    /\ net_req
    /\ chunks' = Chunks(file_data)
    /\ total_packets' = Len(chunks')
    /\ s_pc' = "running"
    /\ UNCHANGED << file_data, sws, base_seq, next_seq, window, send_time, now,
                    estimated_rtt, dev_rtt, rto, transmissions, sample_tx,
                    duplicate_ack_count, sacked_packets >>
    /\ UNCHANGED << client_vars, net_vars >>

\* "Send new packets within window": next_seq after the inner while loop.
RECURSIVE AdmitNext(_, _, _, _)
AdmitNext(base, nxt, total, budget) ==
    IF nxt < total /\ (nxt - base) * MSS < budget
    THEN AdmitNext(base, nxt + 1, total, budget)
    ELSE nxt

\* The window after the packets nxt0 .. nxt1-1 were created and recorded.
Admitted(win, nxt0, nxt1, chs) ==
    [s \in Keys(win) \cup (nxt0 .. nxt1 - 1) |->
        IF s \in nxt0 .. nxt1 - 1 THEN create_packet(s, chs[s + 1]) ELSE win[s]]

\* The send times after the packets nxt0 .. nxt1-1 were recorded at time t.
AdmittedTimes(times, nxt0, nxt1, t) ==
    [s \in Keys(times) \cup (nxt0 .. nxt1 - 1) |-> IF s \in nxt0 .. nxt1 - 1 THEN t ELSE times[s]]

\* "self.window[seq] = (packet, current_time)" for every seq of S.
Resend(times, S, t) == [s \in Keys(times) |-> IF s \in S THEN t ELSE times[s]]

\* The transmission counts after every seq of S was sent once more.
Bump(tx, S) == [s \in Keys(tx) |-> IF s \in S THEN tx[s] + 1 ELSE tx[s]]

\* "Check for timeout on base packet": the sequence numbers retransmitted
\* by the timeout step at time t with retransmission timeout r.
TimeoutRetx(times, base, nxt, total, sacked, t, r) ==
    IF base \in Keys(times) /\ t - times[base] > r
    THEN {base} \cup {s \in base + 1 .. Min(nxt, total) - 1 :
                        s \in Keys(times) /\ s \notin sacked /\ t - times[s] > r}
    ELSE {}

\* Mutant of estimate_rto: the result is not clamped.
estimate_rto_Unclamped(est, dev, sample_rtt) ==
    LET e == IF est = None THEN sample_rtt
             ELSE ((AlphaDen - 1) * est + sample_rtt) \div AlphaDen
        d == IF est = None THEN sample_rtt \div 2
             ELSE ((BetaDen - 1) * dev + Abs(sample_rtt - est)) \div BetaDen
    IN  << e, d, e + K * d >>

\* ReliableUDPServer.estimate_rto in integer milliseconds:
\* <<estimated_rtt, dev_rtt, rto>> after the sample.
estimate_rto(est, dev, sample_rtt) ==
    LET e == IF est = None THEN sample_rtt
             ELSE ((AlphaDen - 1) * est + sample_rtt) \div AlphaDen
        d == IF est = None THEN sample_rtt \div 2
             ELSE ((BetaDen - 1) * dev + Abs(sample_rtt - est)) \div BetaDen
    IN  << e, d, Max(MinRto, Min(e + K * d, MaxRto)) >>

\* Mutant of NewBase: the base follows every ACK, also an older one.
NewBase_AnyAck(base, cum_ack) == cum_ack

\* "Process cumulative ACK": base_seq after the ACK.
NewBase(base, cum_ack) == IF cum_ack > base THEN cum_ack ELSE base

\* Mutant of Acked: range(base_seq, cum_ack + 1) also pops the entry the
\* ACK asks for.
Acked_Inclusive(base, cum_ack) == IF cum_ack > base THEN base .. cum_ack ELSE {}

\* "Remove acknowledged packets": the sequence numbers popped by the ACK.
Acked(base, cum_ack) == IF cum_ack > base THEN base .. cum_ack - 1 ELSE {}

\* "Duplicate ACK": the counter dict after the ACK.
CountDup(dups, base, cum_ack) ==
    IF cum_ack > base THEN DictPop(dups, Acked(base, cum_ack))
    ELSE IF cum_ack = base THEN DictSet(dups, cum_ack, DictGet(dups, cum_ack, 0) + 1)
    ELSE dups

\* "Fast retransmit after 3 duplicate ACKs": the sequence numbers
\* retransmitted, given the counter dict after the ACK.
FastRetx(dups, base, cum_ack, keys) ==
    IF cum_ack = base /\ dups[cum_ack] = FastRetransmitAt /\ base \in keys THEN {base} ELSE {}

\* "First, mark all SACKed packets": the sequence numbers the blocks add.
RECURSIVE SackMarks(_, _, _)
SackMarks(blocks, base, total) ==
    IF blocks = << >> THEN {}
    ELSE LET start_offset == Head(blocks)[1]
             length == Head(blocks)[2]
             start_seq == base + start_offset
             end_seq == Min(start_seq + length, total)
             rest == SackMarks(Tail(blocks), base, total)
         IN  IF start_offset = 0 \/ length = 0 THEN rest
             ELSE IF start_seq < base \/ start_seq >= total THEN rest
             ELSE (start_seq .. end_seq - 1) \cup rest

\* "Process SACK blocks": sacked_packets after the ACK; base is the base
\* already advanced by this ACK.
Sacked(sacked, blocks, base, total) ==
    IF blocks # << >> /\ base < total
    THEN {s \in sacked \cup SackMarks(blocks, base, total) : s >= base}
    ELSE sacked

\* "Now find ALL holes in the window and retransmit them": the sequence
\* numbers retransmitted at time t; sacked is the set after the marking and
\* r the timeout after this ACK's sample.
HoleFill(times, blocks, base, nxt, total, sacked, t, r) ==
    IF blocks # << >> /\ base < total
    THEN {s \in base .. Min(nxt, total) - 1 :
            /\ s \in Keys(times)
            /\ s \notin sacked
            /\ t - times[s] > HoleFillFloor
            /\ 4 * (t - times[s]) > r}
    ELSE {}

\* The model delivers a duplicate ACK only while the counter of its
\* cumulative ACK value is below cap.
DupRoom(ack, cap) ==
    parse_ack(ack)[1] = base_seq => DictGet(duplicate_ack_count, base_seq, 0) < cap

\* The head of one iteration of the main loop of send_file, at clock
\* reading now: new packets are sent within the window, then the timeout
\* step runs.
LoopHead ==
    LET nxt == AdmitNext(base_seq, next_seq, total_packets, sws)
        times == AdmittedTimes(send_time, next_seq, nxt, now)
        timed_out == TimeoutRetx(times, base_seq, nxt, total_packets, sacked_packets,
                                 now, rto)
    IN  [ next_seq |-> nxt,
          window |-> Admitted(window, next_seq, nxt, chunks),
          send_time |-> Resend(times, timed_out, now),
          transmissions |-> Bump(AdmittedTimes(transmissions, next_seq, nxt, 1), timed_out) ]

\* The rest of the iteration when recvfrom returns an ACK with cum_ack and
\* sack_blocks; head is the state LoopHead left.  current_time and ack_time
\* are both the clock reading now: the datagram was waiting in the socket.
AckResult(head, cum_ack, sack_blocks) ==
    LET sampled == cum_ack > base_seq /\ base_seq \in Keys(head.window)
        estimate == IF sampled
                    THEN estimate_rto(estimated_rtt, dev_rtt, now - head.send_time[base_seq])
                    ELSE << estimated_rtt, dev_rtt, rto >>
        base == NewBase(base_seq, cum_ack)
        popped == Acked(base_seq, cum_ack)
        dups == CountDup(duplicate_ack_count, base_seq, cum_ack)
        fast == FastRetx(dups, base_seq, cum_ack, Keys(head.window))
        times == Resend(DictPop(head.send_time, popped), fast, now)
        sacked == Sacked(sacked_packets \ popped, sack_blocks, base, total_packets)
        holes == HoleFill(times, sack_blocks, base, head.next_seq, total_packets, sacked,
                          now, estimate[3])
    IN  [ base_seq |-> base,
          window |-> DictPop(head.window, popped),
          send_time |-> Resend(times, holes, now),
          transmissions |-> Bump(Bump(DictPop(head.transmissions, popped), fast), holes),
          estimate |-> estimate,
          sample_tx |-> IF sampled THEN head.transmissions[base_seq] ELSE sample_tx,
          duplicate_ack_count |-> dups,
          sacked_packets |-> sacked ]

\* One iteration of the main loop of send_file in which recvfrom returns
\* the ACK datagram ack.
ServerAck(ack) ==
    /\ s_pc = "running"
    /\ base_seq < total_packets
    /\ ack \in net_ack
    /\ \E parsed \in {parse_ack(ack)}, head \in {LoopHead} :
         /\ parsed[1] # None
         /\ \E result \in {AckResult(head, parsed[1], parsed[2])} :
              /\ next_seq' = head.next_seq
              /\ net_data' = net_data \cup
                             {head.window[s] : s \in next_seq .. head.next_seq - 1}
              /\ base_seq' = result.base_seq
              /\ window' = result.window
              /\ send_time' = result.send_time
              /\ transmissions' = result.transmissions
              /\ estimated_rtt' = result.estimate[1]
              /\ dev_rtt' = result.estimate[2]
              /\ rto' = result.estimate[3]
              /\ sample_tx' = result.sample_tx
              /\ duplicate_ack_count' = result.duplicate_ack_count
              /\ sacked_packets' = result.sacked_packets
              /\ s_pc' = IF result.base_seq < total_packets THEN "running" ELSE "done"
    /\ UNCHANGED << file_data, sws, chunks, total_packets, now >>
    /\ UNCHANGED << client_vars, net_req, net_ack >>

\* One iteration of the main loop of send_file in which recvfrom times out.
ServerNoAck ==
    /\ s_pc = "running"
    /\ base_seq < total_packets
    /\ \E head \in {LoopHead} :
         /\ next_seq' = head.next_seq
         /\ window' = head.window
         /\ send_time' = head.send_time
         /\ transmissions' = head.transmissions
         /\ net_data' = net_data \cup {head.window[s] : s \in next_seq .. head.next_seq - 1}
    /\ UNCHANGED << file_data, sws, s_pc, chunks, total_packets, base_seq, now,
                    estimated_rtt, dev_rtt, rto, sample_tx, duplicate_ack_count,
                    sacked_packets >>
    /\ UNCHANGED << client_vars, net_req, net_ack >>

\* Time passes at the sender between two readings of time.time().
Tick ==
    /\ s_pc = "running"
    /\ now + TickMs <= MaxTime
    /\ now' = now + TickMs
    /\ UNCHANGED << file_data, sws, s_pc, chunks, total_packets, base_seq, next_seq,
                    window, send_time, estimated_rtt, dev_rtt, rto, transmissions,
                    sample_tx, duplicate_ack_count, sacked_packets >>
    /\ UNCHANGED << client_vars, net_vars >>

(***************************************************************************)
(* Receiver.                                                               *)
(***************************************************************************)
\* The ACK datagram built from the receiver's state.
CurrentAck(rd, expected, eofs) == create_ack(expected, compute_sack_blocks(rd, expected, eofs))

\* Mutant of StoreData: the EOF segment is buffered like a data segment.
StoreData_KeepEof(rd, expected, seq_num, data) ==
    IF seq_num >= expected /\ seq_num \notin Keys(rd) THEN DictSet(rd, seq_num, data)
    ELSE rd

\* "Store data if not duplicate" of the main loop.
StoreData(rd, expected, seq_num, data) ==
    IF data = EOF THEN rd
    ELSE IF seq_num >= expected /\ seq_num \notin Keys(rd) THEN DictSet(rd, seq_num, data)
    ELSE rd

\* "Check for EOF" of the main loop: eof_seq after the segment.
SeenEof(eofs, seq_num, data) == IF data = EOF THEN seq_num ELSE eofs

\* "while self.next_expected in self.received_data: self.next_expected += 1"
RECURSIVE Drain(_, _)
Drain(rd, expected) == IF expected \in Keys(rd) THEN Drain(rd, expected + 1) ELSE expected

\* all(seq in self.received_data for seq in range(self.eof_seq))
AllReceived(rd, eofs) == \A seq \in 0 .. eofs - 1 : seq \in Keys(rd)

\* "self.eof_received and self.eof_seq is not None" and all_received
CompleteOf(eofr, eofs, rd) == eofr /\ eofs # None /\ AllReceived(rd, eofs)

\* data_sequences of "Write received data to file in order"
DataSequences(rd, eofs) == Sorted({s \in Keys(rd) : eofs = None \/ s < eofs})

\* The bytes written: the payloads of data_sequences, in that order.
RECURSIVE WriteAll(_, _)
WriteAll(rd, seqs) ==
    IF seqs = << >> THEN << >> ELSE rd[Head(seqs)] \o WriteAll(rd, Tail(seqs))

\* Mutant of ReturnValue: success as soon as some data segment is held.
ReturnValue_AnyData(rd, eofs) ==
    IF eofs # None
    THEN IF Len(DataSequences(rd, eofs)) > 0 \/ eofs = 0 THEN "True" ELSE "False"
    ELSE "True"

\* "Return success only if we have all expected data"
ReturnValue(rd, eofs) ==
    IF eofs # None
    THEN IF Len(DataSequences(rd, eofs)) = eofs THEN "True" ELSE "False"
    ELSE "True"

\* The completion check at the top of the main loop, for the state an
\* event left behind: does the loop break here?
CheckRuns(packets, timeouts) == packets >= CheckEvery \/ timeouts > 0

\* last_progress_time after the check: it is reset when the buffer grew.
AgeAfterCheck(eofr, rd, count, age) ==
    IF eofr /\ Len(DataSequences(rd, None)) > count THEN 0 ELSE age

CountAfterCheck(eofr, rd, count) ==
    IF eofr /\ Len(DataSequences(rd, None)) > count THEN Len(DataSequences(rd, None)) ELSE count

BreaksAtCheck(eofr, eofs, rd, count, age) ==
    /\ eofr
    /\ eofs # None
    /\ \/ CompleteOf(eofr, eofs, rd)
       \/ AgeAfterCheck(eofr, rd, count, age) >= NoProgressTimeouts

\* Leaving the loop: write the file and return.
Finish(rd, eofs) ==
    /\ c_pc' = "done"
    /\ output' = WriteAll(rd, DataSequences(rd, eofs))
    /\ c_result' = ReturnValue(rd, eofs)

\* The top of the next loop iteration after an event that left the state
\* (rd, eofr, eofs, packets, timeouts, age) and sent the ACKs sent.
LoopTop(rd, expected, eofr, eofs, packets, timeouts, age, sent) ==
    IF CheckRuns(packets, timeouts)
    THEN /\ packets_since_last_check' = 0
         /\ last_received_count' = CountAfterCheck(eofr, rd, last_received_count)
         /\ IF BreaksAtCheck(eofr, eofs, rd, last_received_count, age)
            THEN /\ progress_age' = AgeAfterCheck(eofr, rd, last_received_count, age)
                 /\ net_ack' = net_ack \cup sent \cup {CurrentAck(rd, expected, eofs)}
                 /\ Finish(rd, eofs)
            ELSE /\ progress_age' = AgeAfterCheck(eofr, rd, last_received_count, age)
                 /\ net_ack' = net_ack \cup sent
                 /\ UNCHANGED << c_pc, output, c_result >>
    ELSE /\ packets_since_last_check' = packets
         /\ progress_age' = age
         /\ net_ack' = net_ack \cup sent
         /\ UNCHANGED << last_received_count, c_pc, output, c_result >>

\* send_request: the request datagram is sent and the wait for the first
\* packet starts.
ClientSendRequest ==
    /\ c_pc = "init"
    /\ net_req' = TRUE
    /\ c_pc' = "wait_first"
    /\ UNCHANGED << attempt, received_data, next_expected, eof_received, eof_seq,
                    consecutive_timeouts, packets_since_last_check, progress_age,
                    last_received_count, output, c_result, seen, was_complete,
                    pass_acks >>
    /\ UNCHANGED << server_vars, net_data, net_ack >>

\* send_request: the 2 s wait times out; retry, or give up after the last
\* attempt and return False.
ClientRequestTimeout ==
    /\ c_pc = "wait_first"
    /\ IF attempt < max_retries - 1
       THEN /\ attempt' = attempt + 1
            /\ UNCHANGED << c_pc, c_result >>
       ELSE /\ c_pc' = "done"
            /\ c_result' = "False"
            /\ UNCHANGED attempt
    /\ UNCHANGED << received_data, next_expected, eof_received, eof_seq,
                    consecutive_timeouts, packets_since_last_check, progress_age,
                    last_received_count, output, seen, was_complete, pass_acks >>
    /\ UNCHANGED << server_vars, net_vars >>

\* "Process first packet" and "Send ACK for first packet".
ClientFirstPacket(packet) ==
    /\ c_pc = "wait_first"
    /\ packet \in net_data
    /\ \E parsed \in {parse_packet(packet)} :
         LET seq_num == parsed[1]
             data == parsed[2]
             rd == IF seq_num # None /\ data # EOF
                   THEN DictSet(received_data, seq_num, data) ELSE received_data
             eofr == eof_received \/ (seq_num # None /\ data = EOF)
             eofs == IF seq_num # None /\ data = EOF THEN seq_num ELSE eof_seq
             expected == IF seq_num # None /\ seq_num = next_expected /\ data # EOF
                         THEN next_expected + 1 ELSE next_expected
         IN  \E ack \in {CurrentAck(rd, expected, eofs)} :
               /\ received_data' = rd
               /\ eof_received' = eofr
               /\ eof_seq' = eofs
               /\ next_expected' = expected
               /\ net_ack' = net_ack \cup {ack}
               /\ pass_acks' = << ack >>
               /\ seen' = IF seq_num = None THEN seen ELSE seen \cup {seq_num}
               /\ was_complete' = (was_complete \/ CompleteOf(eofr, eofs, rd))
    /\ c_pc' = "loop"
    /\ UNCHANGED << attempt, consecutive_timeouts, packets_since_last_check,
                    progress_age, last_received_count, output, c_result >>
    /\ UNCHANGED << server_vars, net_req, net_data >>

\* Mutant of AcksForSegment: no ACK answers a segment; the sender hears
\* from the receiver through the periodic ACKs only.
AcksForSegment_None(seq_num, ack) == << >>

\* "if seq_num is None: continue" and "Send ACK with SACK blocks": the ACK
\* datagrams sent for a datagram that was read.
AcksForSegment(seq_num, ack) == IF seq_num = None THEN << >> ELSE << ack >>

\* One pass of the main loop in which recvfrom returns packet, followed by
\* the completion check at the top of the next pass.
ClientRecv(packet) ==
    /\ c_pc = "loop"
    /\ packet \in net_data
    /\ \E parsed \in {parse_packet(packet)} :
         LET seq_num == parsed[1]
             data == parsed[2]
             eofr == eof_received \/ (seq_num # None /\ data = EOF)
             eofs == IF seq_num = None THEN eof_seq ELSE SeenEof(eof_seq, seq_num, data)
         IN  \E rd \in {IF seq_num = None THEN received_data
                        ELSE StoreData(received_data, next_expected, seq_num, data)} :
             \E expected \in {IF seq_num = None THEN next_expected
                              ELSE Drain(rd, next_expected)} :
             \E acks \in {AcksForSegment(seq_num, CurrentAck(rd, expected, eofs))} :
               /\ pass_acks' = acks
               /\ received_data' = rd
               /\ eof_received' = eofr
               /\ eof_seq' = eofs
               /\ next_expected' = expected
               /\ consecutive_timeouts' = 0
               /\ seen' = IF seq_num = None THEN seen ELSE seen \cup {seq_num}
               /\ was_complete' = (was_complete \/ CompleteOf(eofr, eofs, rd))
               /\ LoopTop(rd, expected, eofr, eofs, packets_since_last_check + 1, 0, 0,
                          {acks[i] : i \in 1 .. Len(acks)})
    /\ UNCHANGED attempt
    /\ UNCHANGED << server_vars, net_req, net_data >>

\* One pass of the main loop in which recvfrom times out (0.3 s), followed
\* by the completion check at the top of the next pass.  The last ACK is
\* older than ack_interval by then, so the periodic ACK is sent.
ClientTimeout ==
    /\ c_pc = "loop"
    /\ \E ack \in {CurrentAck(received_data, next_expected, eof_seq)} :
         LET timeouts == consecutive_timeouts + 1
             age == Min(progress_age + 1, NoProgressTimeouts)
         IN  /\ pass_acks' = << ack >>
             /\ consecutive_timeouts' = timeouts
             /\ IF timeouts >= max_consecutive_timeouts
                THEN /\ net_ack' = net_ack \cup {ack}
                     /\ progress_age' = age
                     /\ Finish(received_data, eof_seq)
                     /\ UNCHANGED << packets_since_last_check, last_received_count >>
                ELSE LoopTop(received_data, next_expected, eof_received, eof_seq,
                             packets_since_last_check, timeouts, age, {ack})
    /\ UNCHANGED << attempt, received_data, next_expected, eof_received, eof_seq, seen,
                    was_complete >>
    /\ UNCHANGED << server_vars, net_req, net_data >>

(***************************************************************************)
(* The system.                                                             *)
(***************************************************************************)
Next ==
    \/ ServerStart
    \/ \E ack \in net_ack : DupRoom(ack, MaxDupAcks) /\ ServerAck(ack)
    \/ ServerNoAck
    \/ ClientSendRequest
    \/ ClientRequestTimeout
    \/ \E packet \in net_data : ClientFirstPacket(packet)
    \/ \E packet \in net_data : ClientRecv(packet)
    \/ ClientTimeout

\* In Spec every sender step reads the same clock value: no retransmission
\* timer fires, and a retransmission would put no new datagram on the wire.
\* SpecTimed below lets the clock advance.
Spec == Init /\ [][Next]_vars

\* The fair runs transfer a one-segment file and a two-segment file.
FairFiles == { PlainFile(MSS), PlainFile(MSS + 1) }

FairInit == Init /\ file_data \in FairFiles /\ sws = MSS + 1

DeliverData == \E packet \in net_data : ClientFirstPacket(packet) \/ ClientRecv(packet)

DeliverAck == \E ack \in net_ack : DupRoom(ack, MaxDupAcks) /\ ServerAck(ack)

\* Both loops keep running and the channel keeps delivering: a datagram
\* that can be delivered is eventually delivered to the waiting endpoint.
\* Read timeouts are the environment's: no fairness is assumed for them.
FairSpec ==
    /\ FairInit
    /\ [][Next]_vars
    /\ WF_vars(ServerStart)
    /\ WF_vars(ServerNoAck)
    /\ WF_vars(ClientSendRequest)
    /\ WF_vars(DeliverAck)
    /\ WF_vars(DeliverData)

(***************************************************************************)
(* The timed system: the sender's clock advances, so that retransmission   *)
(* timers fire, and duplicate ACKs are delivered up to two fast-retransmit *)
(* thresholds.                                                             *)
(***************************************************************************)
TimedFiles == { PlainFile(MSS), PlainFile(MSS + 1) }

TimedInit == Init /\ file_data \in TimedFiles /\ sws = MSS + 1

TimedNext ==
    \/ ServerStart
    \/ \E ack \in net_ack : DupRoom(ack, 2 * MaxDupAcks) /\ ServerAck(ack)
    \/ ServerNoAck
    \/ Tick
    \/ ClientSendRequest
    \/ ClientRequestTimeout
    \/ \E packet \in net_data : ClientFirstPacket(packet)
    \/ \E packet \in net_data : ClientRecv(packet)
    \/ ClientTimeout

SpecTimed == TimedInit /\ [][TimedNext]_vars

(***************************************************************************)
(* Segmentation alone: the sender splits a file of any size up to          *)
(* MaxFileSize, with or without a trailing "EOF".                          *)
(***************************************************************************)
SegFiles == { PlainFile(n) : n \in 0 .. MaxFileSize } \cup
            { EofTailFile(n) : n \in 3 .. MaxFileSize }

SegInit ==
    /\ file_data \in SegFiles
    /\ sws \in SwsValues
    /\ s_pc = "idle"
    /\ chunks = << >>
    /\ total_packets = 0
    /\ base_seq = 0
    /\ next_seq = 0
    /\ window = EmptyDict
    /\ send_time = EmptyDict
    /\ now = 0
    /\ estimated_rtt = None
    /\ dev_rtt = None
    /\ rto = INITIAL_RTO
    /\ transmissions = EmptyDict
    /\ sample_tx = 0
    /\ duplicate_ack_count = EmptyDict
    /\ sacked_packets = {}
    /\ net_req = TRUE
    /\ net_data = {}
    /\ net_ack = {}
    /\ c_pc = "wait_first"
    /\ attempt = 0
    /\ received_data = EmptyDict
    /\ next_expected = 0
    /\ eof_received = FALSE
    /\ eof_seq = None
    /\ consecutive_timeouts = 0
    /\ packets_since_last_check = 0
    /\ progress_age = 0
    /\ last_received_count = 0
    /\ output = << >>
    /\ pass_acks = << >>
    /\ c_result = "none"
    /\ seen = {}
    /\ was_complete = FALSE

SegNext == ServerStart

SpecSeg == SegInit /\ [][SegNext]_vars

(***************************************************************************)
(* Properties.                                                             *)
(***************************************************************************)
ReceiverDone == c_pc = "done"
ReceiverSucceeded == c_pc = "done" /\ c_result = "True"

\* The receiver has recorded an EOF and holds every seq in [0, eof_seq).
Complete == CompleteOf(eof_received, eof_seq, received_data)

\* C1: whenever the receiver returns success, the bytes it wrote are
\* exactly the bytes of the file.
C1_ByteExact == ReceiverSucceeded => output = file_data

\* C2: on a channel that delivers, a transfer the receiver completes is
\* one the sender completes too: its main loop eventually ends (base_seq
\* reaches total_packets) and send_file returns.
C2_SenderTerminates == (<>ReceiverSucceeded) => <>(s_pc = "done")

\* C3: the receiver returns success only if it observed EOF and holds
\* every seq in [0, eof_seq); leaving through the hard cap without EOF is
\* a failure.
C3_SuccessOnlyIfComplete == ReceiverSucceeded => Complete

\* C4: the sender never has more than sws bytes of payload outstanding.
C4_WindowBound == (next_seq - base_seq) * MSS <= sws

\* C5: the bytes written to the output are the concatenation of the
\* segments 0..k-1 for some k <= next_expected: nothing buffered beyond a
\* gap is written.
C5_InOrderPrefix == \E k \in 0 .. next_expected : output = Slice(file_data, 0, k * MSS)

\* C6: no step decreases the sender's base_seq or the receiver's
\* next_expected.
C6_NoRegression == [][base_seq' >= base_seq /\ next_expected' >= next_expected]_vars

\* C6 witness: the base has advanced and an ACK older than it is on the
\* wire, and the receiver has delivered a segment that is still on the wire.
C6_Witness ==
    /\ base_seq > 0
    /\ \E ack \in net_ack : parse_ack(ack)[1] < base_seq
    /\ next_expected > 0
    /\ \E packet \in net_data : parse_packet(packet)[1] < next_expected

\* C7: a receiver that has recorded EOF and held every seq in [0, eof_seq)
\* leaves its loop with success: it never returns failure afterwards.
C7_CompleteLeadsToSuccess == (ReceiverDone /\ was_complete) => c_result = "True"

\* C8: processing a data segment whose sequence number the receiver has
\* already received leaves received_data, next_expected and eof_seq
\* unchanged.
C8_DuplicateIsNoOp ==
    [][\A packet \in net_data :
          ( /\ parse_packet(packet)[1] \in seen
            /\ parse_packet(packet)[1] < total_packets - 1
            /\ ClientRecv(packet) )
          => ( /\ received_data' = received_data
               /\ next_expected' = next_expected
               /\ eof_seq' = eof_seq )]_vars

\* C9: base_seq <= next_seq <= total_packets, the window holds exactly the
\* sequence numbers of [base_seq, next_seq), and an entry leaves the window
\* only when base_seq moves past it.
C9_WindowInvariant ==
    /\ [](/\ base_seq <= next_seq
          /\ next_seq <= total_packets
          /\ Keys(window) = base_seq .. next_seq - 1)
    /\ [][\A s \in Keys(window) \ Keys(window') : s < base_seq']_vars

\* C9 witness: a cumulative ACK removed entries and others are still
\* outstanding.
C9_Witness == base_seq > 0 /\ base_seq < next_seq /\ Keys(window) # {}

Ceil(a, b) == (a + b - 1) \div b

\* C10: a file of s bytes is split into ceil(s / MSS) data chunks, all of
\* MSS bytes but a possibly shorter, non-empty last one, that concatenate
\* to the file, followed by the EOF chunk.
C10_Segmentation ==
    LET size == Len(file_data)
        N == total_packets - 1
    IN  s_pc # "idle" =>
          /\ total_packets = Len(chunks)
          /\ N = Ceil(size, MSS)
          /\ \A i \in 1 .. N - 1 : Len(chunks[i]) = MSS
          /\ N > 0 => Len(chunks[N]) \in 1 .. MSS
          /\ \A i \in 1 .. N : chunks[i] = Slice(file_data, (i - 1) * MSS, i * MSS)
          /\ size = (IF N > 0 THEN (N - 1) * MSS + Len(chunks[N]) ELSE 0)
          /\ chunks[N + 1] = EOF
          /\ size = 0 => chunks = << EOF >>
          /\ size = MSS => chunks = << file_data, EOF >>

\* C10 witness: a file of several segments with a short last one has been
\* split.
C10_Witness ==
    /\ s_pc # "idle"
    /\ Len(file_data) > 2 * MSS
    /\ Len(file_data) % MSS # 0

\* C11: every sequence number in the sender's sacked set is one the
\* receiver holds in its buffer: the sender marks the sequence numbers at
\* the block offsets measured from the cum_ack of the ACK that carries them.
C11_SackedAreHeld == sacked_packets \subseteq Keys(received_data)

\* C12: Karn's rule.  Every RTT sample fed to estimate_rto comes from a
\* segment that had been transmitted exactly once when its cumulative ACK
\* removed it.
C12_KarnsRule == sample_tx <= 1

\* C13: in every state in which a main-loop iteration can begin, its
\* timeout step retransmits, and resets the send time of, exactly the
\* outstanding entries that are not SACKed and were last sent more than
\* rto ago.
C13_RetransmitOnTimeout ==
    (s_pc = "running" /\ base_seq < total_packets) =>
        \A s \in Keys(window) :
            (LoopHead.send_time[s] # send_time[s]) <=>
            (s \notin sacked_packets /\ now - send_time[s] > rto)

\* C14: every third duplicate ACK for the same cum_ack (the 3rd, 6th, ...)
\* makes the sender retransmit the segment at base in the iteration that
\* reads it, after the timeout step of that iteration.
C14_FastRetransmitEveryThird ==
    [][\A ack \in net_ack :
          ( /\ ServerAck(ack)
            /\ parse_ack(ack)[1] = base_seq
            /\ duplicate_ack_count'[base_seq] % FastRetransmitAt = 0 )
          => ( /\ transmissions'[base_seq] > LoopHead.transmissions[base_seq]
               /\ send_time'[base_seq] = now )]_vars

\* C15: the number of outstanding segments never exceeds
\* max(1, floor(sws / MSS)).
C15_WindowInSegments == next_seq - base_seq <= Max(1, sws \div MSS)

\* The sequence numbers described by the selective blocks of an ACK.
Described(ack) ==
    LET cum_ack == parse_ack(ack)[1]
        blocks == parse_ack(ack)[2]
    IN  UNION { cum_ack + blocks[i][1] .. cum_ack + blocks[i][1] + blocks[i][2] - 1 :
                i \in 1 .. Len(blocks) }

\* The ACK carries cum_ack = expected and describes only buffered sequence
\* numbers from cum_ack on, none of them that of the EOF segment.
AckDescribes(ack, rd, expected, eofs) ==
    /\ parse_ack(ack)[1] = expected
    /\ \A i \in 1 .. Len(parse_ack(ack)[2]) : parse_ack(ack)[2][i][2] > 0
    /\ \A s \in Described(ack) :
          /\ s >= expected
          /\ s \in Keys(rd)
          /\ s # eofs
          /\ s # total_packets - 1

\* C16: every ACK the receiver emits carries cum_ack equal to its current
\* expected, and its selective blocks describe only sequence numbers that
\* are >= cum_ack, are in the receive buffer and are not the EOF sequence
\* number.
C16_AckContent ==
    /\ [](\A i \in 1 .. Len(pass_acks) :
             AckDescribes(pass_acks[i], received_data, next_expected, eof_seq))
    /\ [][\A ack \in net_ack' \ net_ack :
             AckDescribes(ack, received_data', next_expected', eof_seq')]_vars

\* C16 witness: with EOF recorded and segments delivered, the receiver has
\* emitted an ACK that carries a selective block.
C16_Witness ==
    /\ eof_seq # None
    /\ next_expected > 0
    /\ pass_acks # << >>
    /\ Described(pass_acks[1]) # {}

(***************************************************************************)
(* Stray datagrams: the network also delivers datagrams no sender built,    *)
(* one shorter than the header and one that is a header without payload.   *)
(***************************************************************************)
StrayDatagrams == { PackU32(0), create_packet(0, << >>) }

\* A stray datagram reaches the receiver's socket.
StrayArrives(packet) ==
    /\ packet \notin net_data
    /\ net_data' = net_data \cup {packet}
    /\ UNCHANGED << server_vars, client_vars, net_req, net_ack >>

StrayInit == Init /\ file_data = PlainFile(MSS) /\ sws = MSS + 1

StrayNext ==
    \/ Next
    \/ \E packet \in StrayDatagrams : StrayArrives(packet)

SpecStray == StrayInit /\ [][StrayNext]_vars

\* "too short, zero-length payload"
Malformed(packet) == Len(packet) <= HEADER_SIZE

\* C17: reading a malformed datagram (shorter than the header, or with a
\* zero-length payload) in the main loop leaves the receive buffer,
\* expected and eof_seq unchanged.
C17_MalformedDropped ==
    [][\A packet \in net_data :
          (Malformed(packet) /\ ClientRecv(packet))
          => ( /\ received_data' = received_data
               /\ next_expected' = next_expected
               /\ eof_seq' = eof_seq )]_vars

\* C18: every well-formed segment read in the main loop, a duplicate
\* included, makes the receiver send exactly one ACK, which carries the
\* expected of the state the segment left.  The latest pass was a read
\* exactly when consecutive_timeouts = 0, and on this channel every
\* datagram read is a well-formed segment.
C18_AckForEverySegment ==
    (c_pc \in {"loop", "done"} /\ seen # {} /\ consecutive_timeouts = 0) =>
        /\ Len(pass_acks) = 1
        /\ pass_acks[1] \in net_ack
        /\ parse_ack(pass_acks[1])[1] = next_expected

\* C18 witness: the main loop has read segment 0 at least twice after the
\* first-packet path had delivered it, and the latest read was answered by
\* one ACK with cum_ack 1.
C18_Witness ==
    /\ c_pc = "loop"
    /\ seen = {0}
    /\ next_expected = 1
    /\ consecutive_timeouts = 0
    /\ packets_since_last_check >= 2
    /\ Len(pass_acks) = 1
    /\ parse_ack(pass_acks[1])[1] = 1

\* C19: a receiver that has left its loop with EOF observed and some seq
\* in [0, eof_seq) missing from its buffer has returned failure.
C19_IncompleteIsFailure ==
    (ReceiverDone /\ eof_received /\ eof_seq # None /\ ~AllReceived(received_data, eof_seq))
        => c_result = "False"

\* C19 witness: the receiver left through the no-progress fallback, holding
\* a segment beyond a gap, and returned failure.
C19_Witness ==
    /\ ReceiverDone
    /\ eof_received
    /\ eof_seq # None
    /\ ~AllReceived(received_data, eof_seq)
    /\ Keys(received_data) # {}
    /\ progress_age >= NoProgressTimeouts
    /\ consecutive_timeouts < max_consecutive_timeouts
    /\ c_result = "False"

\* C20: no EOF payload is ever in the receive buffer or in the output, and
\* once eof_seq has been recorded, reading the EOF segment in the main loop
\* leaves eof_seq, the buffer and expected unchanged.
C20_EofHandling ==
    /\ [](/\ \A s \in Keys(received_data) : received_data[s] # EOF
          /\ Len(output) <= Len(file_data))
    /\ [][( /\ c_pc = "loop"
            /\ eof_seq # None
            /\ ClientRecv(create_packet(total_packets - 1, EOF)) )
          => ( /\ eof_seq' = eof_seq
               /\ received_data' = received_data
               /\ next_expected' = next_expected )]_vars

(***************************************************************************)
(* The RTO estimator alone: estimate_rto is fed any sequence of samples    *)
(* drawn from Samples, from the state the constructor leaves.              *)
(***************************************************************************)
\* An instantaneous sample, one at the lower bound and one above the upper
\* bound; the number of calls is not bounded.
Samples == { 0, MinRto, MaxSample }

RtoInit == Init /\ file_data = PlainFile(0) /\ sws = 1

\* self.estimate_rto(sample_rtt)
RttSample(sample_rtt) ==
    /\ \E estimate \in {estimate_rto(estimated_rtt, dev_rtt, sample_rtt)} :
         /\ estimated_rtt' = estimate[1]
         /\ dev_rtt' = estimate[2]
         /\ rto' = estimate[3]
    /\ UNCHANGED << file_data, sws, s_pc, chunks, total_packets, base_seq, next_seq,
                    window, send_time, now, transmissions, sample_tx,
                    duplicate_ack_count, sacked_packets >>
    /\ UNCHANGED << client_vars, net_vars >>

RtoNext == \E sample_rtt \in Samples : RttSample(sample_rtt)

SpecRto == RtoInit /\ [][RtoNext]_vars

\* C21: rto is INITIAL_RTO (1 s) until the first RTT sample is processed,
\* and after every call of estimate_rto it lies in [MinRto, MaxRto]
\* (300 ms .. 3 s).
C21_RtoBounds ==
    /\ estimated_rtt = None => rto = INITIAL_RTO
    /\ estimated_rtt # None => (rto >= MinRto /\ rto <= MaxRto)

\* C21 witness: samples have been processed and the estimate is above the
\* upper bound, where rto is held.
C21_Witness ==
    /\ estimated_rtt # None
    /\ estimated_rtt + K * dev_rtt > MaxRto
    /\ rto = MaxRto

\* N: the sequence number the sender gives the EOF segment, the last of
\* total_packets segments.
EofSegment == Len(Chunks(file_data)) - 1

\* C22: no ACK the receiver has emitted carries a cum_ack above the EOF
\* segment's sequence number, next_expected never passes it, and the
\* sender's base, moved only by those ACKs, never exceeds it.
C22_CumAckAtMostEof ==
    /\ \A ack \in net_ack : parse_ack(ack)[1] <= EofSegment
    /\ next_expected <= EofSegment
    /\ base_seq <= EofSegment

\* C22 witness: every data segment of a non-empty file is acknowledged, the
\* EOF segment has reached the receiver, and the sender's base stands at the
\* EOF segment.
C22_Witness ==
    /\ EofSegment > 0
    /\ eof_seq = EofSegment
    /\ \E ack \in net_ack : parse_ack(ack)[1] = EofSegment
    /\ base_seq = EofSegment

====
